---- MODULE Spec2Model ----
(***************************************************************************)
(* postgres-mcp-server: the tool dispatcher of src/index.js and its three  *)
(* handlers (handleQuery, handleDescribeTable, handleListTables) running   *)
(* as concurrent invocations over one shared connection pool.              *)
(*                                                                         *)
(* JavaScript values are tagged records [t, s, n]; JavaScript strings are  *)
(* TLA+ strings (Len, SubSeq and \o work on them character by character).  *)
(* A handler's code between two awaits runs without interruption, so each  *)
(* action is one such run: from the call to pool.connect(), from the       *)
(* settling of pool.connect() to client.query(), and from the settling of  *)
(* client.query() to the handler's return.                                 *)
(***************************************************************************)
EXTENDS Integers, Sequences, FiniteSets, TLC

\* ------------------------------------------------------------------ bounds

\* Concurrent tool invocations.
NumCalls == 3
\* Capacity of the pool in the model (the pool is created with max: 20; the
\* model scales it down so that saturation happens).
MaxConns == 2
\* Longest row list the database returns to an introspection statement.
MaxRows == 2

Calls == 1..NumCalls

\* ------------------------------------------------------- JavaScript values

\* A primitive value: its type t, and its text s or its number n (the other
\* one at its default, so that any two values compare).
Undefined == [t |-> "undefined", s |-> "", n |-> 0]
Null == [t |-> "null", s |-> "", n |-> 0]
Str(str) == [t |-> "string", s |-> str, n |-> 0]
Num(num) == [t |-> "number", s |-> "", n |-> num]

\* ToBoolean: undefined, null, "", 0 and false are falsy.
Truthy(x) ==
  CASE x.t = "undefined" -> FALSE
    [] x.t = "null" -> FALSE
    [] x.t = "string" -> x.s # ""
    [] x.t = "number" -> x.n # 0
    [] OTHER -> TRUE

\* a || b
Or(a, b) == IF Truthy(a) THEN a ELSE b

\* a === b for primitive values.
StrictEq(a, b) == a = b

\* x > 0 for the values the model passes (numbers, undefined, null, strings
\* that are not numerals): only a positive number is greater than 0.
GreaterThanZero(x) == x.t = "number" /\ x.n > 0

\* ---------------------------------------------------------------- strings

Digits == "0123456789"
LowerLetters == "abcdefghijklmnopqrstuvwxyz"
UpperLetters == "ABCDEFGHIJKLMNOPQRSTUVWXYZ"

CharAt(s, i) == SubSeq(s, i, i)

RECURSIVE NatStr(_)
NatStr(n) ==
  IF n < 10 THEN CharAt(Digits, n + 1)
  ELSE NatStr(n \div 10) \o CharAt(Digits, (n % 10) + 1)

\* String(n) for an integer n, as a template literal renders it.
NumStr(n) == IF n < 0 THEN "-" \o NatStr(-n) ELSE NatStr(n)

\* `${x}`: a string is itself, a number its decimal text, undefined and null
\* their names.
ToStr(x) ==
  CASE x.t = "number" -> NumStr(x.n)
    [] x.t = "string" -> x.s
    [] OTHER -> x.t

UpperChar(ch) ==
  IF \E i \in 1..Len(LowerLetters) : CharAt(LowerLetters, i) = ch
  THEN CharAt(UpperLetters, CHOOSE i \in 1..Len(LowerLetters) : CharAt(LowerLetters, i) = ch)
  ELSE ch

RECURSIVE ToUpperCase(_)
ToUpperCase(s) ==
  IF s = "" THEN ""
  ELSE UpperChar(CharAt(s, 1)) \o ToUpperCase(SubSeq(s, 2, Len(s)))

IsSpace(ch) == ch \in {" ", "\t", "\n"}

RECURSIVE TrimStart(_)
TrimStart(s) ==
  IF s # "" /\ IsSpace(CharAt(s, 1)) THEN TrimStart(SubSeq(s, 2, Len(s))) ELSE s

RECURSIVE TrimEnd(_)
TrimEnd(s) ==
  IF s # "" /\ IsSpace(CharAt(s, Len(s))) THEN TrimEnd(SubSeq(s, 1, Len(s) - 1)) ELSE s

Trim(s) == TrimEnd(TrimStart(s))

StartsWith(s, p) == Len(s) >= Len(p) /\ SubSeq(s, 1, Len(p)) = p

Includes(s, p) == \E i \in 1..(Len(s) - Len(p) + 1) : SubSeq(s, i, i + Len(p) - 1) = p

\* ---------------------------------------------------------- configuration

\* parseInt(process.env.POSTGRES_MAX_ROWS) || 100
DefaultMaxRows == 100

\* this.defaultConfig for two environments: nothing set, and schema, context
\* and max rows all set. parseInt(...) || 100 is never 0.
Configs ==
  { [schema |-> "public", context |-> "", maxRows |-> DefaultMaxRows],
    [schema |-> "app", context |-> "prod", maxRows |-> 7] }

\* ------------------------------------------------------------- dispatcher

ToolNames == {"query", "describe_table", "list_tables"}

\* A switch whose default branch falls into handleListTables.
RouteUnknownToList(name) ==
  CASE name = "query" -> "handleQuery"
    [] name = "describe_table" -> "handleDescribeTable"
    [] OTHER -> "handleListTables"

\* The switch of the CallToolRequest handler: the handler a tool name runs,
\* "none" for the default branch.
Route(name) ==
  CASE name = "query" -> "handleQuery"
    [] name = "describe_table" -> "handleDescribeTable"
    [] name = "list_tables" -> "handleListTables"
    [] OTHER -> "none"

\* throw new Error(`Unknown tool: ${name}`)
UnknownToolError(name) ==
  [kind |-> "Error", message |-> Str("Unknown tool: " \o name),
   code |-> Undefined, detail |-> Undefined, hint |-> Undefined]

\* const { ... } = args throws a TypeError when args is undefined or null.
Destructurable(args) == args.t = "object"

DestructureError ==
  [kind |-> "TypeError", message |-> Str("Cannot destructure property of undefined"),
   code |-> Undefined, detail |-> Undefined, hint |-> Undefined]

\* query.trim() throws a TypeError when query is not a string.
TrimError ==
  [kind |-> "TypeError", message |-> Str("query.trim is not a function"),
   code |-> Undefined, detail |-> Undefined, hint |-> Undefined]

\* ------------------------------------------------------------ handleQuery

\* const targetSchema = schema || this.defaultConfig.schema
TargetSchema(schema, cfg) == Or(schema, Str(cfg.schema))

\* const limitRows = maxRows || this.defaultConfig.maxRows
LimitRows(maxRows, cfg) == Or(maxRows, Num(cfg.maxRows))

\* context || this.defaultConfig.context
ResolvedContext(context, cfg) == Or(context, Str(cfg.context))

\* The condition without its test for an existing LIMIT.
ShouldLimitAnySelect(query, limitRows) ==
  /\ StartsWith(ToUpperCase(Trim(query)), "SELECT")
  /\ GreaterThanZero(limitRows)

\* The condition of the if that appends the LIMIT clause.
ShouldLimit(query, limitRows) ==
  /\ StartsWith(ToUpperCase(Trim(query)), "SELECT")
  /\ ~Includes(ToUpperCase(query), "LIMIT")
  /\ GreaterThanZero(limitRows)

\* let finalQuery = query; if (...) finalQuery += ` LIMIT ${limitRows}`
FinalQuery(query, limitRows) ==
  IF ShouldLimit(query, limitRows)
  THEN query \o " LIMIT " \o ToStr(limitRows)
  ELSE query

\* result.fields ? result.fields.map(...) : null
MapFields(fields) ==
  IF fields.t = "array"
  THEN [t |-> "array",
        v |-> [i \in 1..Len(fields.v) |->
                 [name |-> fields.v[i].name,
                  dataTypeID |-> fields.v[i].dataTypeID,
                  dataTypeSize |-> fields.v[i].dataTypeSize,
                  dataTypeModifier |-> fields.v[i].dataTypeModifier]]]
  ELSE Null

\* An error block that drops the hint.
ErrorBlockNoHint(error) ==
  [message |-> error.message, code |-> error.code,
   detail |-> error.detail, hint |-> Undefined]

\* The error block every handler's catch builds.
ErrorBlock(error) ==
  [message |-> error.message, code |-> error.code,
   detail |-> error.detail, hint |-> error.hint]

\* The response object of handleQuery's try block.
QuerySuccess(args, cfg, finalQuery, res) ==
  [success |-> TRUE,
   query |-> Str(finalQuery),
   schema |-> TargetSchema(args.schema, cfg),
   context |-> ResolvedContext(args.context, cfg),
   execution |-> [command |-> res.command,
                  rowCount |-> Or(res.rowCount, Num(0)),
                  fields |-> MapFields(res.fields)],
   data |-> res.rows,
   metadata |-> [hasData |-> Len(res.rows) > 0,
                 dataCount |-> Len(res.rows),
                 wasLimited |-> ~StrictEq(args.query, Str(finalQuery)),
                 limitApplied |-> LimitRows(args.maxRows, cfg)]]

\* The errorResponse object of handleQuery's catch block.
QueryFailure(args, cfg, error) ==
  [success |-> FALSE,
   error |-> ErrorBlock(error),
   query |-> args.query,
   schema |-> TargetSchema(args.schema, cfg),
   context |-> ResolvedContext(args.context, cfg)]

\* ---------------------------------------------------- handleDescribeTable

DescribeBase == "SELECT column_name, data_type, is_nullable, column_default, character_maximum_length, numeric_precision, numeric_scale FROM information_schema.columns WHERE table_schema = "

\* A statement with the schema and the table name written into its text.
DescribeQueryInterpolated(targetSchema, tableName) ==
  DescribeBase \o "'" \o ToStr(targetSchema) \o "' AND table_name = '"
    \o ToStr(tableName) \o "' ORDER BY ordinal_position;"

\* The statement of handleDescribeTable: one fixed text with $1 and $2.
DescribeQuery(targetSchema, tableName) ==
  DescribeBase \o "$1 AND table_name = $2 ORDER BY ordinal_position;"

\* client.query(query, [targetSchema, tableName])
DescribeParams(targetSchema, tableName) == <<targetSchema, tableName>>

\* typeInfo.fullType of one row.
FullType(row) ==
  ToStr(row.data_type)
    \o (IF Truthy(row.character_maximum_length)
        THEN "(" \o ToStr(row.character_maximum_length) \o ")" ELSE "")
    \o (IF Truthy(row.numeric_precision)
        THEN "(" \o ToStr(row.numeric_precision)
               \o (IF Truthy(row.numeric_scale) THEN "," \o ToStr(row.numeric_scale) ELSE "")
               \o ")"
        ELSE "")

\* result.rows.map((row, index) => ({...}))
Column(row, index) ==
  [position |-> index,
   name |-> row.column_name,
   dataType |-> row.data_type,
   nullable |-> StrictEq(row.is_nullable, Str("YES")),
   defaultValue |-> row.column_default,
   constraints |-> [characterMaximumLength |-> row.character_maximum_length,
                    numericPrecision |-> row.numeric_precision,
                    numericScale |-> row.numeric_scale],
   typeInfo |-> [fullType |-> FullType(row)]]

DescribeSuccess(args, cfg, res) ==
  [success |-> TRUE,
   table |-> [name |-> args.tableName,
              schema |-> TargetSchema(args.schema, cfg),
              fullName |-> ToStr(TargetSchema(args.schema, cfg)) \o "." \o ToStr(args.tableName)],
   columns |-> [i \in 1..Len(res.rows) |-> Column(res.rows[i], i)],
   metadata |-> [columnCount |-> Len(res.rows),
                 found |-> Len(res.rows) > 0]]

DescribeFailure(args, cfg, error) ==
  [success |-> FALSE,
   error |-> ErrorBlock(error),
   table |-> [name |-> args.tableName,
              schema |-> TargetSchema(args.schema, cfg)]]

\* ------------------------------------------------------- handleListTables

ListBase == "SELECT table_name, table_type FROM information_schema.tables WHERE table_schema = "

\* let query = `...$1`; if (pattern) query += ` AND table_name LIKE $2`;
\* query += ` ORDER BY table_name`
ListQuery(targetSchema, pattern) ==
  ListBase \o "$1"
    \o (IF Truthy(pattern) THEN " AND table_name LIKE $2" ELSE "")
    \o " ORDER BY table_name"

\* const params = [targetSchema]; if (pattern) params.push(pattern)
ListParams(targetSchema, pattern) ==
  IF Truthy(pattern) THEN <<targetSchema, pattern>> ELSE <<targetSchema>>

\* filtered: pattern !== null
Filtered(pattern) == pattern.t # "null"

\* pattern || null
PatternOrNull(pattern) == Or(pattern, Null)

Table(row, index, targetSchema) ==
  [position |-> index,
   name |-> row.table_name,
   type |-> row.table_type,
   fullName |-> ToStr(targetSchema) \o "." \o ToStr(row.table_name)]

ListSuccess(args, cfg, res) ==
  [success |-> TRUE,
   schema |-> TargetSchema(args.schema, cfg),
   pattern |-> PatternOrNull(args.pattern),
   tables |-> [i \in 1..Len(res.rows) |->
                 Table(res.rows[i], i, TargetSchema(args.schema, cfg))],
   metadata |-> [tableCount |-> Len(res.rows),
                 found |-> Len(res.rows) > 0,
                 filtered |-> Filtered(args.pattern)]]

ListFailure(args, cfg, error) ==
  [success |-> FALSE,
   error |-> ErrorBlock(error),
   schema |-> TargetSchema(args.schema, cfg),
   pattern |-> PatternOrNull(args.pattern)]

\* return { content: [{ type: "text", text: JSON.stringify(response, null, 2) }] }
\* The text is kept as the object it serialises; a property whose value is
\* Undefined is a key JSON.stringify leaves out.
ToolResult(response) == [content |-> <<[type |-> "text", text |-> response]>>]

\* ----------------------------------------------------------------- inputs

\* The arguments object of a tools/call request; a key the caller left out
\* reads as Undefined.
Args(query, schema, context, maxRows, tableName, pattern) ==
  [t |-> "object", query |-> query, schema |-> schema, context |-> context,
   maxRows |-> maxRows, tableName |-> tableName, pattern |-> pattern]

\* A request whose params carry no arguments member.
NoArgs == Undefined

Request(name, args) == [name |-> name, args |-> args]

NoRequest == Request("", NoArgs)

QueryTexts ==
  {"SELECT 1", "select 1", " \n select 1 ", "SELECT 1 LIMIT 5", "select 1 limit 5",
   "SELECT climit", "UPDATE t", "DO SELECT", "DELETE limit", ""}

QueryRequests ==
  { Request("query", Args(q, s, x, m, Undefined, Undefined)) :
      q \in {Str(text) : text \in QueryTexts} \cup {Undefined, Num(7)},
      s \in {Undefined, Str("sales")},
      x \in {Undefined, Str("audit")},
      m \in {Undefined, Num(0), Num(-1), Num(5)} }

DescribeRequests ==
  { Request("describe_table", Args(Undefined, s, Undefined, Undefined, n, Undefined)) :
      s \in {Undefined, Str("sales")},
      n \in {Str("users"), Str("orders"), Undefined} }

ListRequests ==
  { Request("list_tables", Args(Undefined, s, Undefined, Undefined, Undefined, p)) :
      s \in {Undefined, Str("sales")},
      p \in {Undefined, Null, Str(""), Str("%user%")} }

NoArgsRequests == { Request(name, NoArgs) : name \in ToolNames }

UnknownRequests ==
  { Request("drop_table", NoArgs),
    Request("Query", Args(Str("SELECT 1"), Undefined, Undefined, Undefined, Undefined, Undefined)) }

\* Every request the single-invocation specification draws from.
AllRequests ==
  QueryRequests \cup DescribeRequests \cup ListRequests \cup NoArgsRequests \cup UnknownRequests

\* The requests of the concurrent specification: one or two per path.
FewRequests ==
  { Request("query", Args(Str("SELECT 1"), Undefined, Undefined, Undefined, Undefined, Undefined)),
    Request("query", Args(Undefined, Undefined, Undefined, Undefined, Undefined, Undefined)),
    Request("describe_table", Args(Undefined, Undefined, Undefined, Undefined, Str("users"), Undefined)),
    Request("list_tables", Args(Undefined, Undefined, Undefined, Undefined, Undefined, Str("%user%"))),
    Request("list_tables", NoArgs),
    Request("drop_table", NoArgs) }

\* Rows of information_schema.columns as PostgreSQL reports them.
IntegerRow ==
  [column_name |-> Str("id"), data_type |-> Str("integer"), is_nullable |-> Str("NO"),
   column_default |-> Str("nextval('users_id_seq')"),
   character_maximum_length |-> Null, numeric_precision |-> Num(32), numeric_scale |-> Num(0)]

VarcharRow ==
  [column_name |-> Str("name"), data_type |-> Str("character varying"), is_nullable |-> Str("YES"),
   column_default |-> Null,
   character_maximum_length |-> Num(50), numeric_precision |-> Null, numeric_scale |-> Null]

TimestampRow ==
  [column_name |-> Str("created_at"), data_type |-> Str("timestamp without time zone"),
   is_nullable |-> Str("YES"), column_default |-> Null,
   character_maximum_length |-> Null, numeric_precision |-> Null, numeric_scale |-> Null]

NumericRow ==
  [column_name |-> Str("price"), data_type |-> Str("numeric"), is_nullable |-> Str("NO"),
   column_default |-> Null,
   character_maximum_length |-> Null, numeric_precision |-> Num(10), numeric_scale |-> Num(2)]

ColumnRows == {IntegerRow, VarcharRow, TimestampRow, NumericRow}

TableRows ==
  { [table_name |-> Str("users"), table_type |-> Str("BASE TABLE")],
    [table_name |-> Str("user_roles"), table_type |-> Str("VIEW")] }

SeqsUpTo(S, n) == UNION { [1..k -> S] : k \in 0..n }

Field(name) ==
  [name |-> name, tableID |-> 0, columnID |-> 0, dataTypeID |-> 23,
   dataTypeSize |-> 4, dataTypeModifier |-> -1, format |-> "text"]

Array(seq) == [t |-> "array", v |-> seq]

\* What client.query resolves with, per handler.
QueryResults ==
  { [command |-> Str("SELECT"), rowCount |-> Num(0), fields |-> Array(<<Field("n")>>), rows |-> <<>>],
    [command |-> Str("SELECT"), rowCount |-> Num(2), fields |-> Array(<<Field("n")>>), rows |-> <<1, 2>>],
    [command |-> Str("BEGIN"), rowCount |-> Null, fields |-> Array(<<>>), rows |-> <<>>] }

DescribeResults ==
  { [command |-> Str("SELECT"), rowCount |-> Num(Len(rows)), rows |-> rows] :
      rows \in SeqsUpTo(ColumnRows, MaxRows) }

ListResults ==
  { [command |-> Str("SELECT"), rowCount |-> Num(Len(rows)), rows |-> rows] :
      rows \in SeqsUpTo(TableRows, MaxRows) }

AllResults(handler) ==
  CASE handler = "handleQuery" -> QueryResults
    [] handler = "handleDescribeTable" -> DescribeResults
    [] handler = "handleListTables" -> ListResults
    [] OTHER -> {}

FewResults(handler) ==
  CASE handler = "handleQuery" ->
         {[command |-> Str("SELECT"), rowCount |-> Num(2), fields |-> Array(<<Field("n")>>), rows |-> <<1, 2>>]}
    [] handler = "handleDescribeTable" ->
         {[command |-> Str("SELECT"), rowCount |-> Num(1), rows |-> <<VarcharRow>>]}
    [] handler = "handleListTables" ->
         {[command |-> Str("SELECT"), rowCount |-> Num(0), rows |-> <<>>]}
    [] OTHER -> {}

\* What pool.connect() rejects with.
ConnectErrors ==
  { [kind |-> "Error", message |-> Str("timeout exceeded when trying to connect"),
     code |-> Undefined, detail |-> Undefined, hint |-> Undefined],
    [kind |-> "Error", message |-> Str("connect ECONNREFUSED"),
     code |-> Str("ECONNREFUSED"), detail |-> Undefined, hint |-> Undefined] }

\* What client.query rejects with.
DatabaseErrors ==
  { [kind |-> "DatabaseError", message |-> Str("syntax error at or near \"nope\""),
     code |-> Str("42601"), detail |-> Undefined, hint |-> Undefined],
    [kind |-> "DatabaseError", message |-> Str("column \"nam\" does not exist"),
     code |-> Str("42703"), detail |-> Str("in relation users"),
     hint |-> Str("Perhaps you meant \"name\".")] }

FewConnectErrors == { CHOOSE e \in ConnectErrors : e.code.t = "undefined" }

FewDatabaseErrors == { CHOOSE e \in DatabaseErrors : e.hint.t = "string" }

\* ------------------------------------------------------------------ state

VARIABLES
  config,    \* this.defaultConfig, fixed by the constructor
  pool,      \* this.pool: connections checked out, and per invocation the
             \* connect() calls that resolved and the release() calls made
  pc,        \* where each invocation stands
  request,   \* the params of each invocation's request
  ran,       \* the handler the dispatcher called for each invocation
  locals,    \* targetSchema, limitRows and the statement of each invocation
  sent,      \* the statements each invocation passed to client.query
  failure,   \* the rejection of pool.connect() or client.query, if any
  result,    \* what client.query resolved with, if it did
  reply      \* what the request handler returned or threw

vars == <<config, pool, pc, request, ran, locals, sent, failure, result, reply>>

NoStatement == [text |-> "", params |-> <<>>]
NoLocals == [targetSchema |-> Undefined, limitRows |-> Undefined, statement |-> NoStatement]
NoFailure == [at |-> "none"]
NoResult == [settled |-> FALSE]
NoReply == [content |-> <<>>]

Init ==
  /\ config \in Configs
  /\ pool = [checkedOut |-> 0,
             acquires |-> [c \in Calls |-> 0],
             releases |-> [c \in Calls |-> 0]]
  /\ pc = [c \in Calls |-> "idle"]
  /\ request = [c \in Calls |-> NoRequest]
  /\ ran = [c \in Calls |-> "none"]
  /\ locals = [c \in Calls |-> NoLocals]
  /\ sent = [c \in Calls |-> <<>>]
  /\ failure = [c \in Calls |-> NoFailure]
  /\ result = [c \in Calls |-> NoResult]
  /\ reply = [c \in Calls |-> NoReply]

\* ------------------------------------------------------------------- pool

\* A handler that takes a second client for its statement.
PoolConnectTwice(p, c) ==
  [p EXCEPT !.checkedOut = @ + 2, !.acquires[c] = @ + 2]

\* await this.pool.connect() resolving with a client for invocation c.
PoolConnect(p, c) ==
  [p EXCEPT !.checkedOut = @ + 1, !.acquires[c] = @ + 1]

\* A handler without its finally block.
ClientReleaseSkipped(p, c) == p

\* client.release() in the finally block of invocation c.
ClientRelease(p, c) ==
  [p EXCEPT !.checkedOut = @ - 1, !.releases[c] = @ + 1]

\* ------------------------------------------------------- handler prologues

\* The statements before the outer try of each handler.
Prologue(handler, args, cfg) ==
  [targetSchema |-> TargetSchema(args.schema, cfg),
   limitRows |-> IF handler = "handleQuery" THEN LimitRows(args.maxRows, cfg) ELSE Undefined,
   statement |->
     CASE handler = "handleDescribeTable" ->
            [text |-> DescribeQuery(TargetSchema(args.schema, cfg), args.tableName),
             params |-> DescribeParams(TargetSchema(args.schema, cfg), args.tableName)]
       [] handler = "handleListTables" ->
            [text |-> ListQuery(TargetSchema(args.schema, cfg), args.pattern),
             params |-> ListParams(TargetSchema(args.schema, cfg), args.pattern)]
       [] OTHER -> NoStatement]

\* The errorResponse of the handler's catch block, wrapped as the tool res.
FailureReply(handler, args, cfg, error) ==
  ToolResult(
    CASE handler = "handleQuery" -> QueryFailure(args, cfg, error)
      [] handler = "handleDescribeTable" -> DescribeFailure(args, cfg, error)
      [] OTHER -> ListFailure(args, cfg, error))

\* The response of the handler's inner try block, wrapped as the tool res.
SuccessReply(handler, args, cfg, statement, res) ==
  ToolResult(
    CASE handler = "handleQuery" -> QuerySuccess(args, cfg, statement.text, res)
      [] handler = "handleDescribeTable" -> DescribeSuccess(args, cfg, res)
      [] OTHER -> ListSuccess(args, cfg, res))

\* ---------------------------------------------------------------- actions

\* The CallToolRequest handler receives req for invocation c: the switch, and
\* the called handler up to its await this.pool.connect().
Dispatch(c, req) ==
  /\ pc[c] = "idle"
  /\ request' = [request EXCEPT ![c] = req]
  /\ ran' = [ran EXCEPT ![c] = Route(req.name)]
  /\ IF Route(req.name) = "none"
     THEN /\ pc' = [pc EXCEPT ![c] = "thrown"]
          /\ reply' = [reply EXCEPT ![c] = UnknownToolError(req.name)]
          /\ UNCHANGED locals
     ELSE IF ~Destructurable(req.args)
     THEN /\ pc' = [pc EXCEPT ![c] = "thrown"]
          /\ reply' = [reply EXCEPT ![c] = DestructureError]
          /\ UNCHANGED locals
     ELSE /\ pc' = [pc EXCEPT ![c] = "connecting"]
          /\ locals' = [locals EXCEPT ![c] = Prologue(Route(req.name), req.args, config)]
          /\ UNCHANGED reply
  /\ UNCHANGED <<config, pool, sent, failure, result>>

\* pool.connect() resolves for invocation c: the handler runs up to its
\* await client.query(...). handleQuery builds finalQuery here, and
\* query.trim() throws when query is not a string: the finally block
\* releases the client and the catch block returns the errorResponse.
ConnectResolve(c) ==
  /\ pc[c] = "connecting"
  /\ pool.checkedOut < MaxConns
  /\ IF ran[c] = "handleQuery" /\ request[c].args.query.t # "string"
     THEN /\ pool' = ClientRelease(PoolConnect(pool, c), c)
          /\ reply' = [reply EXCEPT ![c] =
                         FailureReply(ran[c], request[c].args, config, TrimError)]
          /\ pc' = [pc EXCEPT ![c] = "returned"]
          /\ UNCHANGED <<locals, sent>>
     ELSE LET statement ==
                IF ran[c] = "handleQuery"
                THEN [text |-> FinalQuery(request[c].args.query.s, locals[c].limitRows),
                      params |-> <<>>]
                ELSE locals[c].statement
          IN /\ pool' = PoolConnect(pool, c)
             /\ locals' = [locals EXCEPT ![c].statement = statement]
             /\ sent' = [sent EXCEPT ![c] = Append(@, statement)]
             /\ pc' = [pc EXCEPT ![c] = "executing"]
             /\ UNCHANGED reply
  /\ UNCHANGED <<config, request, ran, failure, result>>

\* pool.connect() rejects with error: no client was acquired, the outer catch
\* returns the errorResponse.
ConnectReject(c, error) ==
  /\ pc[c] = "connecting"
  /\ failure' = [failure EXCEPT ![c] = [at |-> "connect", error |-> error]]
  /\ reply' = [reply EXCEPT ![c] = FailureReply(ran[c], request[c].args, config, error)]
  /\ pc' = [pc EXCEPT ![c] = "returned"]
  /\ UNCHANGED <<config, pool, request, ran, locals, sent, result>>

\* client.query resolves with res: the response is built and returned, the
\* finally block releases the client.
QueryResolve(c, res) ==
  /\ pc[c] = "executing"
  /\ result' = [result EXCEPT ![c] = [settled |-> TRUE, value |-> res]]
  /\ reply' = [reply EXCEPT ![c] =
                 SuccessReply(ran[c], request[c].args, config, locals[c].statement, res)]
  /\ pool' = ClientRelease(pool, c)
  /\ pc' = [pc EXCEPT ![c] = "returned"]
  /\ UNCHANGED <<config, request, ran, locals, sent, failure>>

\* client.query rejects with error: the finally block releases the client, the
\* outer catch returns the errorResponse.
QueryReject(c, error) ==
  /\ pc[c] = "executing"
  /\ failure' = [failure EXCEPT ![c] = [at |-> "query", error |-> error]]
  /\ pool' = ClientRelease(pool, c)
  /\ reply' = [reply EXCEPT ![c] = FailureReply(ran[c], request[c].args, config, error)]
  /\ pc' = [pc EXCEPT ![c] = "returned"]
  /\ UNCHANGED <<config, request, ran, locals, sent, result>>

\* --------------------------------------------------------- specifications

\* NumCalls invocations interleaved over the shared pool, each drawing its
\* request from FewRequests.
Next ==
  \E c \in Calls :
    \/ \E req \in FewRequests : Dispatch(c, req)
    \/ ConnectResolve(c)
    \/ \E error \in FewConnectErrors : ConnectReject(c, error)
    \/ \E res \in FewResults(ran[c]) : QueryResolve(c, res)
    \/ \E error \in FewDatabaseErrors : QueryReject(c, error)

Spec == Init /\ [][Next]_vars

\* One invocation, drawing its request, the database's result and the
\* driver's errors from the full input sets.
NextInputs ==
  \/ \E req \in AllRequests : Dispatch(1, req)
  \/ ConnectResolve(1)
  \/ \E error \in ConnectErrors : ConnectReject(1, error)
  \/ \E res \in AllResults(ran[1]) : QueryResolve(1, res)
  \/ \E error \in DatabaseErrors : QueryReject(1, error)

SpecInputs == Init /\ [][NextInputs]_vars

\* ----------------------------------------------------------------- claims

InFlight(c) == pc[c] \in {"connecting", "executing"}
Finished(c) == pc[c] \in {"returned", "thrown"}
Held(c) == pool.acquires[c] - pool.releases[c]
Envelope(c) == reply[c].content[1].text
Succeeded(c) == pc[c] = "returned" /\ Envelope(c).success
SameValue(a, b) == a = b
Supplied(x) == x.t # "undefined"
Executed(c) == sent[c][1]

\* C1: an invocation never releases more connections than it acquired; once
\* it has finished, every connection it acquired has been released exactly
\* once, after a resolved statement and after a rejected one alike, and it
\* holds none; an invocation whose pool.connect() rejected acquired nothing
\* and released nothing.
C1_ReleasedExactlyOnce ==
  \A c \in Calls :
    /\ pool.releases[c] <= pool.acquires[c]
    /\ Finished(c) => Held(c) = 0
    /\ Finished(c) /\ sent[c] # <<>> => pool.acquires[c] = 1 /\ pool.releases[c] = 1
    /\ failure[c].at = "connect" => pool.acquires[c] = 0 /\ pool.releases[c] = 0
    /\ pc[c] = "thrown" => pool.acquires[c] = 0 /\ pool.releases[c] = 0

\* C1 witness: one invocation returned after its statement failed, another
\* after its statement succeeded, each having released once, while a third
\* is still holding its connection.
C1_Witness ==
  \E a, b, d \in Calls :
    /\ failure[a].at = "query" /\ pc[a] = "returned" /\ pool.releases[a] = 1
    /\ Succeeded(b) /\ pool.releases[b] = 1
    /\ pc[d] = "executing" /\ Held(d) = 1

\* C2: the text the query tool sends is q followed by " LIMIT L" exactly when
\* uppercase(trim(q)) starts with SELECT, does not contain LIMIT, and L > 0,
\* and is q otherwise; wasLimited says whether the text was modified and the
\* envelope's query is the executed text.
C2_LimitAppendedIff ==
  \A c \in Calls :
    ran[c] = "handleQuery" /\ sent[c] # <<>> =>
      LET q == request[c].args.query.s
          L == locals[c].limitRows
          trimmedUpper == ToUpperCase(Trim(q))
          augment == /\ StartsWith(trimmedUpper, "SELECT")
                     /\ ~Includes(trimmedUpper, "LIMIT")
                     /\ L.t = "number" /\ L.n > 0
      IN /\ Len(sent[c]) = 1
         /\ Executed(c).text = IF augment THEN q \o " LIMIT " \o NumStr(L.n) ELSE q
         /\ Succeeded(c) =>
              /\ Envelope(c).metadata.wasLimited = (Executed(c).text # q)
              /\ Envelope(c).query = Str(Executed(c).text)

\* C2 witness: a lower-case SELECT with surrounding whitespace, executed with
\* the default limit appended and reported as limited.
C2_Witness ==
  /\ Succeeded(1)
  /\ request[1].args.query = Str(" \n select 1 ")
  /\ Executed(1).text = " \n select 1  LIMIT 100"
  /\ Envelope(1).metadata.wasLimited

\* C3: the effective limit is maxRows whenever maxRows is supplied, 0 and
\* negative numbers included, and the configured default only when it is
\* absent; when the effective limit is not positive, no LIMIT is appended and
\* wasLimited is false.
C3_SuppliedMaxRowsIsTheLimit ==
  \A c \in Calls :
    ran[c] = "handleQuery" /\ pc[c] # "idle" /\ pc[c] # "thrown" =>
      LET m == request[c].args.maxRows
          effective == IF Supplied(m) THEN m ELSE Num(config.maxRows)
      IN /\ SameValue(locals[c].limitRows, effective)
         /\ sent[c] # <<>> /\ ~GreaterThanZero(effective) =>
              Executed(c).text = request[c].args.query.s
         /\ Succeeded(c) /\ ~GreaterThanZero(effective) =>
              ~Envelope(c).metadata.wasLimited

\* C4: a rejection of client.query or of pool.connect() is caught in the
\* handler, which returns an envelope with success false, the error's
\* message, code, detail and hint, and the call's identifiers.
C4_FailureEnvelope ==
  \A c \in Calls :
    failure[c].at # "none" =>
      LET e == failure[c].error
          env == Envelope(c)
          args == request[c].args
          schema == IF Truthy(args.schema) THEN args.schema ELSE Str(config.schema)
      IN /\ pc[c] = "returned"
         /\ env.success = FALSE
         /\ SameValue(env.error.message, e.message)
         /\ SameValue(env.error.code, e.code)
         /\ SameValue(env.error.detail, e.detail)
         /\ SameValue(env.error.hint, e.hint)
         /\ ran[c] = "handleQuery" =>
              /\ SameValue(env.query, args.query)
              /\ SameValue(env.schema, schema)
              /\ SameValue(env.context,
                           IF Truthy(args.context) THEN args.context ELSE Str(config.context))
         /\ ran[c] = "handleDescribeTable" =>
              /\ SameValue(env.table.name, args.tableName)
              /\ SameValue(env.table.schema, schema)
         /\ ran[c] = "handleListTables" =>
              /\ SameValue(env.schema, schema)
              /\ SameValue(env.pattern, IF Truthy(args.pattern) THEN args.pattern ELSE Null)

\* C4 witness: a SELECT that was sent with a LIMIT appended is rejected by
\* the database with a hint, and the envelope carries the original text.
C4_Witness ==
  /\ failure[1].at = "query"
  /\ ran[1] = "handleQuery"
  /\ failure[1].error.hint.t = "string"
  /\ Executed(1).text = "SELECT 1 LIMIT 5"
  /\ Envelope(1).query = Str("SELECT 1")
  /\ ~Envelope(1).success

\* C5: an unregistered tool name throws Unknown tool to the caller, runs no
\* handler and acquires no connection; a registered name runs its own
\* handler, whose result is what the caller gets.
C5_DispatchByName ==
  \A c \in Calls :
    pc[c] # "idle" =>
      IF request[c].name \notin {"query", "describe_table", "list_tables"}
      THEN /\ pc[c] = "thrown"
           /\ reply[c].kind = "Error"
           /\ reply[c].message = Str("Unknown tool: " \o request[c].name)
           /\ ran[c] = "none"
           /\ pool.acquires[c] = 0
           /\ sent[c] = <<>>
      ELSE /\ request[c].name = "query" => ran[c] = "handleQuery"
           /\ request[c].name = "describe_table" => ran[c] = "handleDescribeTable"
           /\ request[c].name = "list_tables" => ran[c] = "handleListTables"
           /\ pc[c] = "returned" =>
                /\ request[c].name = "query" => "query" \in DOMAIN Envelope(c)
                /\ request[c].name = "describe_table" => "table" \in DOMAIN Envelope(c)
                /\ request[c].name = "list_tables" => "pattern" \in DOMAIN Envelope(c)

\* C5 witness: an unknown name has thrown while a registered name has
\* returned its handler's envelope.
C5_Witness ==
  \E a, b \in Calls :
    /\ pc[a] = "thrown" /\ request[a].name = "drop_table"
    /\ pc[b] = "returned" /\ request[b].name = "describe_table" /\ Envelope(b).success

\* C6: a call whose tool name is registered never raises an error, whatever
\* its arguments value: it returns an envelope with a success flag.
C6_RegisteredNeverThrows ==
  \A c \in Calls :
    request[c].name \in ToolNames /\ Finished(c) =>
      /\ pc[c] = "returned"
      /\ "success" \in DOMAIN Envelope(c)

\* C7: in a list_tables success envelope, filtered is true exactly when the
\* statement carries the table_name LIKE condition with its second
\* parameter; without a pattern the statement filters on schema only, the
\* envelope's pattern is null and filtered is false.
C7_FilteredIffPatternApplied ==
  \A c \in Calls :
    ran[c] = "handleListTables" /\ Succeeded(c) =>
      LET applied == /\ Includes(Executed(c).text, "table_name LIKE $2")
                     /\ Len(Executed(c).params) = 2
      IN /\ Envelope(c).metadata.filtered = applied
         /\ ~Supplied(request[c].args.pattern) =>
              /\ ~applied
              /\ Envelope(c).pattern.t = "null"
              /\ ~Envelope(c).metadata.filtered

\* C8: describe_table maps the rows in order to columns 1..n; the full type
\* of an integer row (precision 32, scale 0) is "integer", of a varchar(50)
\* row "character varying(50)", of a timestamp row "timestamp without time
\* zone"; nullable is true exactly for is_nullable YES; columnCount is the
\* number of rows.
C8_ColumnDescriptors ==
  \A c \in Calls :
    ran[c] = "handleDescribeTable" /\ Succeeded(c) =>
      LET rows == result[c].value.rows
          cols == Envelope(c).columns
      IN /\ Len(cols) = Len(rows)
         /\ Envelope(c).metadata.columnCount = Len(rows)
         /\ \A i \in 1..Len(rows) :
              /\ cols[i].position = i
              /\ cols[i].name = rows[i].column_name
              /\ cols[i].nullable = (rows[i].is_nullable.s = "YES")
              /\ rows[i] = IntegerRow => cols[i].typeInfo.fullType = "integer"
              /\ rows[i] = VarcharRow => cols[i].typeInfo.fullType = "character varying(50)"
              /\ rows[i] = TimestampRow =>
                   cols[i].typeInfo.fullType = "timestamp without time zone"

C10_OneConnectionPerInvocation ==
  /\ \A c \in Calls :
       /\ Held(c) \in {0, 1}
       /\ pool.acquires[c] <= 1
       /\ Len(sent[c]) <= 1
       /\ Len(sent[c]) <= pool.acquires[c]
       /\ Held(c) = 1 => InFlight(c)
  /\ pool.checkedOut <= Cardinality({c \in Calls : InFlight(c)})
  /\ pool.checkedOut <= MaxConns
  /\ (\A c \in Calls : ~InFlight(c)) => pool.checkedOut = 0

\* C10 witness: the pool is saturated by invocations executing their
\* statements while another waits for a connection.
C10_Witness ==
  /\ pool.checkedOut = MaxConns
  /\ \E c \in Calls : pc[c] = "connecting"
  /\ Cardinality({c \in Calls : pc[c] = "executing"}) = MaxConns

====
